---- MODULE Spec2Model ----
(***************************************************************************)
(* Model of first_steps/datetime.py: a script that reads the clock, does   *)
(* datetime/timedelta arithmetic, parses date strings free-form            *)
(* (dateutil.parser.parse), by explicit format (datetime.strptime), as a   *)
(* column (pandas.to_datetime on a list and on a year/month/day frame) and *)
(* builds a periodic index (pandas.date_range).                            *)
(*                                                                         *)
(* The operations are modelled by what the called routines compute:        *)
(* the proleptic Gregorian ordinal arithmetic of datetime, dateutil's      *)
(* year/month/day resolution and default fill, strptime's directive        *)
(* table, and pandas' element-wise conversion and integer assembly.        *)
(*                                                                         *)
(* A date string is modelled by its lexical content: the sequence of its   *)
(* numeric components and which one (if any) was written as a month name;  *)
(* a text with no component holds no date.  A component >= 100 stands for  *)
(* a token of more than two digits, one < 100 for a token of one or two.   *)
(***************************************************************************)
EXTENDS Integers, Sequences, FiniteSets, TLC

\* ------------------------------------------------------------------------
\* Bounds of the model
\* ------------------------------------------------------------------------
MaxTicks == 2      \* clock readings per run: ClockStart + k * ClockStep
MaxLen == 2        \* longest column handed to to_datetime
MaxPeriods == 3    \* longest index asked of date_range

\* ------------------------------------------------------------------------
\* datetime and timedelta values (datetime.py:15-16)
\* ------------------------------------------------------------------------
DateTime(y, m, d, hh, mi, ss, us) ==
    [year |-> y, month |-> m, day |-> d,
     hour |-> hh, minute |-> mi, second |-> ss, microsecond |-> us]

Date(y, m, d) == DateTime(y, m, d, 0, 0, 0, 0)

\* timedelta(days, seconds, microseconds), normalised as the constructor
\* does: 0 <= microseconds < 10^6, 0 <= seconds < 86400, days carries sign.
TimeDelta(d, s, us) ==
    LET s1  == s + (us \div 1000000)
        us1 == us % 1000000
        d1  == d + (s1 \div 86400)
    IN  [days |-> d1, seconds |-> s1 % 86400, microseconds |-> us1]

IsLeap(y) == (y % 4 = 0) /\ ((y % 100 # 0) \/ (y % 400 = 0))

DaysInMonthTable == <<31, 28, 31, 30, 31, 30, 31, 31, 30, 31, 30, 31>>

DaysBeforeMonthTable == <<0, 31, 59, 90, 120, 151, 181, 212, 243, 273, 304, 334>>

DaysInMonth(y, m) ==
    IF m = 2 /\ IsLeap(y) THEN 29 ELSE DaysInMonthTable[m]

DaysBeforeYear(y) ==
    LET p == y - 1
    IN  p * 365 + (p \div 4) - (p \div 100) + (p \div 400)

DaysBeforeMonth(y, m) ==
    DaysBeforeMonthTable[m] + (IF m > 2 /\ IsLeap(y) THEN 1 ELSE 0)

\* the fields datetime(...) accepts; anything else raises ValueError
ValidDate(y, m, d) ==
    /\ y \in 1..9999
    /\ m \in 1..12
    /\ d >= 1
    /\ d <= DaysInMonth(y, m)

ValidTime(hh, mi, ss, us) ==
    /\ hh \in 0..23
    /\ mi \in 0..59
    /\ ss \in 0..59
    /\ us \in 0..999999

\* date.toordinal(): 1 for 0001-01-01
ToOrdinal(y, m, d) == DaysBeforeYear(y) + DaysBeforeMonth(y, m) + d

\* date.fromordinal(): the 400/100/4/1-year cycle decomposition
FromOrdinal(ord) ==
    LET n0   == ord - 1
        n400 == n0 \div 146097
        r400 == n0 % 146097
        n100 == r400 \div 36524
        r100 == r400 % 36524
        n4   == r100 \div 1461
        r4   == r100 % 1461
        n1   == r4 \div 365
        n    == r4 % 365
        y    == n400 * 400 + 1 + n100 * 100 + n4 * 4 + n1
    IN  IF n1 = 4 \/ n100 = 4
        THEN [year |-> y - 1, month |-> 12, day |-> 31]
        ELSE LET leap == (n1 = 3) /\ (n4 # 24 \/ n100 = 3)
                 m0   == (n + 50) \div 32
                 p0   == DaysBeforeMonthTable[m0]
                           + (IF m0 > 2 /\ leap THEN 1 ELSE 0)
                 m    == IF p0 > n THEN m0 - 1 ELSE m0
                 p    == IF p0 > n
                         THEN p0 - (DaysInMonthTable[m]
                                      + (IF m = 2 /\ leap THEN 1 ELSE 0))
                         ELSE p0
             IN  [year |-> y, month |-> m, day |-> n - p + 1]

SecondsOfDay(t) == t.second + t.minute * 60 + t.hour * 3600

\* a subtraction that forgets the microseconds
DateTimeSub_DropsMicroseconds(b, a) ==
    TimeDelta(ToOrdinal(b.year, b.month, b.day) - ToOrdinal(a.year, a.month, a.day),
              SecondsOfDay(b) - SecondsOfDay(a),
              0)

\* datetime.__sub__(datetime): difference of ordinals, seconds, microseconds
DateTimeSub(b, a) ==
    TimeDelta(ToOrdinal(b.year, b.month, b.day) - ToOrdinal(a.year, a.month, a.day),
              SecondsOfDay(b) - SecondsOfDay(a),
              b.microsecond - a.microsecond)

\* datetime.__add__(timedelta): through the ordinal and back
DateTimeAdd(a, td) ==
    LET delta == TimeDelta(ToOrdinal(a.year, a.month, a.day) + td.days,
                           SecondsOfDay(a) + td.seconds,
                           a.microsecond + td.microseconds)
        ymd   == FromOrdinal(delta.days)
    IN  DateTime(ymd.year, ymd.month, ymd.day,
                 delta.seconds \div 3600,
                 (delta.seconds % 3600) \div 60,
                 delta.seconds % 60,
                 delta.microseconds)

\* timedelta.__mul__(int)
TimeDeltaMul(td, k) ==
    TimeDelta(td.days * k, td.seconds * k, td.microseconds * k)

\* datetime comparison a <= b
DateTimeLeq(a, b) ==
    LET d == DateTimeSub(b, a) IN d.days >= 0

\* ------------------------------------------------------------------------
\* Results of a call: a value, or the exception it raised
\* ------------------------------------------------------------------------
\* Exceptions are named by what failed: "ParseError" a text that does not
\* convert (dateutil's ParserError, pandas' out-of-bounds and unknown-format
\* ValueErrors), "FormatMismatchError" strptime's ValueError,
\* "LengthMismatchError" columns of unequal length, "ValueError" a frame
\* row that is no date, "InvalidArgumentError" a bad argument of date_range.
Ok(v) == [kind |-> "ok", val |-> v]

Err(k) == [kind |-> k, val |-> <<>>]

ErrAt(k, i) == [kind |-> k, val |-> <<>>, pos |-> i]

IsOk(r) == r.kind = "ok"

\* ------------------------------------------------------------------------
\* Date strings, by lexical content
\* ------------------------------------------------------------------------
\* parts: the numeric components in reading order (a month name counts as
\* its number); mon: position of the component written as a month name, 0
\* if none.  No component at all: the text holds no date.
Text(parts, mon) == [parts |-> parts, mon |-> mon]

None == -1

\* ------------------------------------------------------------------------
\* dateutil.parser.parse (datetime.py:44-62)
\* ------------------------------------------------------------------------
\* _ymd.append labels a token of more than two digits as the year
IsYearToken(t, i) == i # t.mon /\ t.parts[i] >= 100

YearTokens(t) == {i \in 1..Len(t.parts) : IsYearToken(t, i)}

CenturySpecified(t) == YearTokens(t) # {}

\* _ymd.resolve_ymd with yearfirst=False: which component is the year, the
\* month and the day.  None marks a field the text does not give.
ResolveYMD(t, dayfirst) ==
    LET p    == t.parts
        n    == Len(p)
        ys   == YearTokens(t)
        yi   == IF ys = {} THEN 0 ELSE CHOOSE i \in ys : TRUE
        mi   == t.mon
        nstr == (IF yi # 0 THEN 1 ELSE 0) + (IF mi # 0 THEN 1 ELSE 0)
        YMD(y, m, d) == [year |-> y, month |-> m, day |-> d]
    IN  IF (n = nstr /\ nstr > 0) \/ (n = 3 /\ nstr = 2)
        THEN \* _resolve_from_stridxs
             LET di == IF n = 3 THEN CHOOSE i \in 1..3 : i # yi /\ i # mi ELSE 0
             IN  YMD(IF yi # 0 THEN p[yi] ELSE None,
                     IF mi # 0 THEN p[mi] ELSE None,
                     IF di # 0 THEN p[di] ELSE None)
        ELSE IF n = 1 \/ (mi # 0 /\ n = 2)
        THEN LET other == IF mi # 0 THEN p[3 - mi] ELSE p[1]
                 m     == IF mi # 0 THEN p[mi] ELSE None
             IN  IF n > 1 \/ mi = 0
                 THEN IF other > 31 THEN YMD(other, m, None)
                                    ELSE YMD(None, m, other)
                 ELSE YMD(None, m, None)
        ELSE IF n = 2
        THEN IF p[1] > 31 THEN YMD(p[1], p[2], None)
             ELSE IF p[2] > 31 THEN YMD(p[2], p[1], None)
             ELSE IF dayfirst /\ p[2] <= 12 THEN YMD(None, p[2], p[1])
             ELSE YMD(None, p[1], p[2])
        ELSE \* n = 3
             IF mi = 1
             THEN IF p[2] > 31 THEN YMD(p[2], p[1], p[3])
                               ELSE YMD(p[3], p[1], p[2])
             ELSE IF mi = 2
             THEN IF p[1] > 31 THEN YMD(p[1], p[2], p[3])
                               ELSE YMD(p[3], p[2], p[1])
             ELSE IF mi = 3
             THEN IF p[2] > 31 THEN YMD(p[2], p[3], p[1])
                               ELSE YMD(p[1], p[3], p[2])
             ELSE IF p[1] > 31 \/ yi = 1
             THEN IF dayfirst /\ p[3] <= 12 THEN YMD(p[1], p[3], p[2])
                                            ELSE YMD(p[1], p[2], p[3])
             ELSE IF p[1] > 12 \/ (dayfirst /\ p[2] <= 12)
             THEN YMD(p[3], p[2], p[1])
             ELSE YMD(p[3], p[1], p[2])

\* parserinfo.convertyear: a two-digit year goes to the century that puts
\* it within 50 years of the current year
ConvertYear(y, centurySpecified, nowYear) ==
    IF y < 100 /\ ~centurySpecified
    THEN LET c == y + (nowYear \div 100) * 100
         IN  IF c >= nowYear + 50 THEN c - 100
             ELSE IF c < nowYear - 50 THEN c + 100
             ELSE c
    ELSE y

\* parser._build_naive: the fields the text gives replace those of the
\* default; a day taken from the default is cut to the month's length
BuildNaive(res, default) ==
    LET y  == IF res.year = None THEN default.year ELSE res.year
        m  == IF res.month = None THEN default.month ELSE res.month
        d0 == IF res.day = None THEN default.day ELSE res.day
    IN  IF ~(y \in 1..9999 /\ m \in 1..12)
        THEN Err("ParseError")
        ELSE LET d == IF res.day = None /\ d0 > DaysInMonth(y, m)
                      THEN DaysInMonth(y, m) ELSE d0
             IN  IF ValidDate(y, m, d)
                 THEN Ok(DateTime(y, m, d, default.hour, default.minute,
                                  default.second, default.microsecond))
                 ELSE Err("ParseError")

\* parser.parse(timestr, default): tokens -> ymd -> validate -> build
ParseWithDefault(t, dayfirst, default, nowYear) ==
    IF Len(t.parts) = 0 \/ Len(t.parts) > 3 \/ Cardinality(YearTokens(t)) > 1
    THEN Err("ParseError")
    ELSE LET r  == ResolveYMD(t, dayfirst)
             yr == IF r.year = None THEN None
                   ELSE ConvertYear(r.year, CenturySpecified(t), nowYear)
         IN  BuildNaive([r EXCEPT !.year = yr], default)

\* a default that keeps the clock's time of day
DefaultOf_KeepsTime(now) == now

\* the default of dateutil.parser.parse: today at midnight
DefaultOf(now) == Date(now.year, now.month, now.day)

\* a parse that drops its dayfirst argument
parse_IgnoresDayFirst(t, dayfirst, now) ==
    ParseWithDefault(t, FALSE, DefaultOf(now), now.year)

\* a parse that holds month-first to its word and rejects a first
\* component that cannot be a month
parse_StrictMonthFirst(t, dayfirst, now) ==
    IF ~dayfirst /\ t.mon = 0 /\ Len(t.parts) = 3 /\ t.parts[1] \in 13..31
    THEN Err("ParseError")
    ELSE ParseWithDefault(t, dayfirst, DefaultOf(now), now.year)

\* parse(text, dayfirst=...) called when the clock reads `now`
parse(t, dayfirst, now) ==
    ParseWithDefault(t, dayfirst, DefaultOf(now), now.year)

\* ------------------------------------------------------------------------
\* datetime.strptime and datetime.strftime (datetime.py:65-67)
\* ------------------------------------------------------------------------
\* A format is its sequence of directives: "%m-%Y" is <<"m", "Y">>.
Directives == {"d", "m", "Y", "y", "H", "M", "S"}

\* the digits a directive's pattern matches
Matches(dir, v) ==
    CASE dir = "d" -> v \in 1..31
      [] dir = "m" -> v \in 1..12
      [] dir = "Y" -> v \in 1000..9999
      [] dir = "y" -> v \in 0..99
      [] dir = "H" -> v \in 0..23
      [] dir = "M" -> v \in 0..59
      [] dir = "S" -> v \in 0..61

\* a lookup whose omitted fields are 0 instead of the default
FieldOr_ZeroDefault(t, F, dir, dflt) ==
    IF \E i \in 1..Len(F) : F[i] = dir
    THEN t.parts[CHOOSE i \in 1..Len(F) : F[i] = dir]
    ELSE 0

\* the value of directive dir found in the text, or `dflt` when the format
\* does not have the directive
FieldOr(t, F, dir, dflt) ==
    IF \E i \in 1..Len(F) : F[i] = dir
    THEN t.parts[CHOOSE i \in 1..Len(F) : F[i] = dir]
    ELSE dflt

\* %y: 69-99 are 1969-1999, 00-68 are 2000-2068
PivotYear(v) == IF v <= 68 THEN 2000 + v ELSE 1900 + v

\* datetime.strptime(text, format): omitted fields default to
\* 1900-01-01 00:00:00
strptime(t, F) ==
    IF t.mon # 0 \/ Len(t.parts) # Len(F)
       \/ \E i \in 1..Len(F) : ~Matches(F[i], t.parts[i])
    THEN Err("FormatMismatchError")
    ELSE LET y  == IF \E i \in 1..Len(F) : F[i] = "Y"
                   THEN FieldOr(t, F, "Y", 1900)
                   ELSE IF \E i \in 1..Len(F) : F[i] = "y"
                   THEN PivotYear(FieldOr(t, F, "y", 0))
                   ELSE 1900
             m  == FieldOr(t, F, "m", 1)
             d  == FieldOr(t, F, "d", 1)
             hh == FieldOr(t, F, "H", 0)
             mi == FieldOr(t, F, "M", 0)
             ss == FieldOr(t, F, "S", 0)
         IN  IF ValidDate(y, m, d) /\ ValidTime(hh, mi, ss, 0)
             THEN Ok(DateTime(y, m, d, hh, mi, ss, 0))
             ELSE Err("FormatMismatchError")

\* what a directive prints for an instant
Printed(c, dir) ==
    CASE dir = "d" -> c.day
      [] dir = "m" -> c.month
      [] dir = "Y" -> c.year
      [] dir = "y" -> c.year % 100
      [] dir = "H" -> c.hour
      [] dir = "M" -> c.minute
      [] dir = "S" -> c.second

\* c.strftime(format)
strftime(c, F) == Text([i \in 1..Len(F) |-> Printed(c, F[i])], 0)

\* ------------------------------------------------------------------------
\* pandas.to_datetime on a list of strings (datetime.py:70-76)
\* ------------------------------------------------------------------------
\* Timestamp covers 1677-09-21 .. 2262-04-11; whole years inside it
InTimestampBounds(c) == c.year \in 1678..2261

\* YYYY-MM-DD is read by the ISO 8601 fast path, whatever dayfirst says
IsISO(t) ==
    /\ Len(t.parts) = 3
    /\ t.mon = 0
    /\ t.parts[1] >= 1000
    /\ t.parts[2] < 100
    /\ t.parts[3] < 100
    /\ ValidDate(t.parts[1], t.parts[2], t.parts[3])

\* a conversion that drops dayfirst
ConvertElement_IgnoresDayFirst(t, dayfirst, now) ==
    LET r == ParseWithDefault(t, FALSE, Date(1, 1, 1), now.year)
    IN  IF IsOk(r) /\ ~InTimestampBounds(r.val) THEN Err("ParseError") ELSE r

\* a conversion that fills omitted fields from the clock, as parse does
ConvertElement_ClockDefault(t, dayfirst, now) ==
    LET r == ParseWithDefault(t, dayfirst, now, now.year)
    IN  IF IsOk(r) /\ ~InTimestampBounds(r.val) THEN Err("ParseError") ELSE r

\* one element of the column: ISO path, else dateutil with the fixed
\* default 0001-01-01 00:00:00, then the Timestamp range check
ConvertElement(t, dayfirst, now) ==
    LET r == IF IsISO(t)
             THEN Ok(Date(t.parts[1], t.parts[2], t.parts[3]))
             ELSE ParseWithDefault(t, dayfirst, Date(1, 1, 1), now.year)
    IN  IF IsOk(r) /\ ~InTimestampBounds(r.val)
        THEN Err("ParseError")
        ELSE r

\* a best-effort conversion (errors='coerce' and drop): bad elements are
\* skipped and the rest returned
to_datetime_BestEffort(tokens, dayfirst, now) ==
    LET good == {i \in 1..Len(tokens) : IsOk(ConvertElement(tokens[i], dayfirst, now))}
        first == IF good = {} THEN 0 ELSE CHOOSE i \in good : \A j \in good : i <= j
    IN  IF first = 0 THEN Ok(<<>>)
        ELSE Ok(<<ConvertElement(tokens[first], dayfirst, now).val>>)

\* to_datetime(list, dayfirst=...), errors='raise': the first element that
\* does not convert raises, and the call then returns nothing
to_datetime(tokens, dayfirst, now) ==
    LET conv == [i \in 1..Len(tokens) |-> ConvertElement(tokens[i], dayfirst, now)]
        bad  == {i \in 1..Len(tokens) : ~IsOk(conv[i])}
    IN  IF bad = {}
        THEN Ok([i \in 1..Len(tokens) |-> conv[i].val])
        ELSE ErrAt("ParseError", CHOOSE i \in bad : \A j \in bad : i <= j)

\* ------------------------------------------------------------------------
\* pandas.to_datetime on a year/month/day frame (datetime.py:78-85)
\* ------------------------------------------------------------------------
\* an assembly with month and day in each other's place
AssembleYMD_DayBeforeMonth(y, m, d) == y * 10000 + d * 100 + m

\* the columns are summed into one integer per row ...
AssembleYMD(y, m, d) == y * 10000 + m * 100 + d

\* ... which is then read back with format %Y%m%d
ParseYYYYMMDD(v) ==
    LET y == v \div 10000
        m == (v \div 100) % 100
        d == v % 100
    IN  IF ValidDate(y, m, d) /\ InTimestampBounds(Date(y, m, d))
        THEN Ok(Date(y, m, d))
        ELSE Err("ValueError")

\* to_datetime(DataFrame({'year': ys, 'month': ms, 'day': ds}))
to_datetime_frame(ys, ms, ds) ==
    IF Len(ys) # Len(ms) \/ Len(ms) # Len(ds)
    THEN Err("LengthMismatchError")
    ELSE LET conv == [i \in 1..Len(ys) |->
                         ParseYYYYMMDD(AssembleYMD(ys[i], ms[i], ds[i]))]
         IN  IF \A i \in 1..Len(ys) : IsOk(conv[i])
             THEN Ok([i \in 1..Len(ys) |-> conv[i].val])
             ELSE Err("ValueError")

\* ------------------------------------------------------------------------
\* pandas.date_range (datetime.py:89-91)
\* ------------------------------------------------------------------------
\* a range that starts one step late
date_range_StartsLate(start, periods, step) ==
    IF periods < 0
    THEN Err("InvalidArgumentError")
    ELSE Ok([i \in 1..periods |-> DateTimeAdd(start, TimeDeltaMul(step, i))])

\* date_range(start, periods, freq): start + i * step for i = 0 .. periods-1
date_range(start, periods, step) ==
    IF periods < 0
    THEN Err("InvalidArgumentError")
    ELSE LET vals == [i \in 1..periods |->
                         DateTimeAdd(start, TimeDeltaMul(step, i - 1))]
         IN  IF \A i \in 1..periods : InTimestampBounds(vals[i])
             THEN Ok(vals)
             ELSE Err("InvalidArgumentError")

\* ------------------------------------------------------------------------
\* The clock (datetime.py:20) and the inputs the calls are made on
\* ------------------------------------------------------------------------
\* first reading: Sat Oct 12 16:55:03 2019; later readings 19 days, 1 h 28
\* min 3 s apart (the second is Oct 31 18:23:06 2019)
ClockStart == DateTime(2019, 10, 12, 16, 55, 3, 7)

ClockStep == TimeDelta(19, 5283, 0)

ClockAt(k) == DateTimeAdd(ClockStart, TimeDeltaMul(ClockStep, k))

SeqsUpTo(S, n) == UNION {[1..k -> S] : k \in 0..n}

\* the strings of the script, and neighbours of theirs
Texts ==
    { Text(<<6, 4, 2001>>, 0),      \* '6/4/2001', "06-04-2001"
      Text(<<21, 6, 1995>>, 0),     \* '21-06-1995', '21, 06, 1995'
      Text(<<6, 3, 2014>>, 0),      \* '06-03-2014'
      Text(<<6, 4, 14>>, 0),        \* '06-04-14'
      Text(<<31, 6, 1995>>, 0),     \* '31-06-1995': June has 30 days
      Text(<<45, 6, 1995>>, 0),     \* '45-06-1995'
      Text(<<6, 1995>>, 0),         \* '06-1995'
      Text(<<6, 1995>>, 1),         \* 'June 1995'
      Text(<<6, 4, 2009>>, 1),      \* 'June 4th, 2009'
      Text(<<2001, 6, 4>>, 0),      \* '2001-06-04'
      Text(<<6, 25>>, 0),           \* '06-25'
      Text(<<1995>>, 0),            \* '1995'
      Text(<<>>, 0) }               \* no date in the text

Formats ==
    { <<"m", "Y">>,                          \* '%m-%Y'
      <<"d", "m", "Y">>,                     \* '%d-%m-%Y'
      <<"m", "y">>,                          \* '%m-%y'
      <<"Y", "m", "d", "H", "M", "S">> }     \* '%Y-%m-%d %H:%M:%S'

Instants ==
    { Date(1995, 1, 12), Date(2019, 10, 11), Date(2019, 10, 12),
      Date(1995, 6, 1), Date(1900, 6, 1), Date(2000, 2, 29),
      DateTime(2009, 6, 4, 22, 45, 0, 0),
      DateTime(1999, 12, 31, 23, 59, 59, 999999) }

Durations ==
    { TimeDelta(1, 0, 0), TimeDelta(0, 43200, 0), TimeDelta(2, 0, 0),
      TimeDelta(-1, 0, 0), TimeDelta(0, 0, 1), TimeDelta(9039, 0, 0) }

RangeStarts ==
    { Date(2000, 1, 1), Date(2000, 2, 28), Date(1999, 2, 27),
      Date(1900, 2, 28), DateTime(1999, 12, 30, 23, 59, 59, 999999) }

\* rows of a year/month/day frame
Rows ==
    { <<1995, 2, 27>>, <<1996, 3, 17>>, <<1997, 4, 16>>,
      <<1996, 2, 29>>, <<1995, 2, 29>>, <<1996, 13, 17>>, <<1995, 2, 127>> }

Column(rows, k) == [i \in 1..Len(rows) |-> rows[i][k]]

\* a column one element short of the others
Short(col) == IF Len(col) = 0 THEN col ELSE SubSeq(col, 1, Len(col) - 1)

\* ------------------------------------------------------------------------
\* State
\* ------------------------------------------------------------------------
\* Two runs of the program, A and B, are followed side by side: each has
\* its own clock, B may have made calls of its own before, and every call
\* below is made in both with the same arguments.
VARIABLES
    clock,     \* run A: readings of the clock so far
    clockB,    \* run B: readings of the clock so far
    priorB,    \* run B: it has made a call that run A did not
    pc,        \* "idle" or "returned"
    call,      \* the call last made: operation and arguments
    res,       \* what it returned in run A
    resB       \* what it returned in run B

vars == <<clock, clockB, priorB, pc, call, res, resB>>

NoCall == [op |-> "none"]

Init ==
    /\ clock = 0
    /\ clockB = 0
    /\ priorB = FALSE
    /\ pc = "idle"
    /\ call = NoCall
    /\ res = Err("none")
    /\ resB = Err("none")

Now == ClockAt(clock)

NowB == ClockAt(clockB)

\* time passes in run A, between calls
TickA ==
    /\ pc = "idle"
    /\ clock < MaxTicks
    /\ clock' = clock + 1
    /\ UNCHANGED <<clockB, priorB, pc, call, res, resB>>

\* time passes in run B, between calls
TickB ==
    /\ pc = "idle"
    /\ clockB < MaxTicks
    /\ clockB' = clockB + 1
    /\ UNCHANGED <<clock, priorB, pc, call, res, resB>>

\* Today = datetime.now()
CurrentInstant ==
    /\ pc = "idle"
    /\ call' = [op |-> "current_instant"]
    /\ res' = Ok(Now)
    /\ resB' = Ok(NowB)
    /\ pc' = "returned"
    /\ UNCHANGED <<clock, clockB, priorB>>

\* time_elapsed = b - a
Subtract ==
    /\ pc = "idle"
    /\ \E a \in Instants, b \in Instants :
        /\ call' = [op |-> "subtract", a |-> a, b |-> b]
        /\ res' = Ok(DateTimeSub(b, a))
        /\ resB' = Ok(DateTimeSub(b, a))
    /\ pc' = "returned"
    /\ UNCHANGED <<clock, clockB, priorB>>

\* Today = yesterday + timedelta(1)
Add ==
    /\ pc = "idle"
    /\ \E a \in Instants, d \in Durations :
        /\ call' = [op |-> "add", a |-> a, d |-> d]
        /\ res' = Ok(DateTimeAdd(a, d))
        /\ resB' = Ok(DateTimeAdd(a, d))
    /\ pc' = "returned"
    /\ UNCHANGED <<clock, clockB, priorB>>

\* parse(text, dayfirst=...)
ParseFreeForm ==
    /\ pc = "idle"
    /\ \E t \in Texts, df \in BOOLEAN :
        /\ call' = [op |-> "parse_free_form", text |-> t, dayfirst |-> df]
        /\ res' = parse(t, df, Now)
        /\ resB' = parse(t, df, NowB)
    /\ pc' = "returned"
    /\ UNCHANGED <<clock, clockB, priorB>>

\* datetime.strptime(text, format), on any text and on printed instants
ParseWithFormat ==
    /\ pc = "idle"
    /\ \E F \in Formats :
        \E t \in Texts \cup {strftime(c, F) : c \in Instants} :
            /\ call' = [op |-> "parse_with_format", text |-> t, format |-> F]
            /\ res' = strptime(t, F)
            /\ resB' = strptime(t, F)
    /\ pc' = "returned"
    /\ UNCHANGED <<clock, clockB, priorB>>

\* pd.to_datetime(column, dayfirst=...)
ParseCollection ==
    /\ pc = "idle"
    /\ \E ts \in SeqsUpTo(Texts, MaxLen), df \in BOOLEAN :
        /\ call' = [op |-> "parse_collection", tokens |-> ts, dayfirst |-> df]
        /\ res' = to_datetime(ts, df, Now)
        /\ resB' = to_datetime(ts, df, NowB)
    /\ pc' = "returned"
    /\ UNCHANGED <<clock, clockB, priorB>>

\* pd.to_datetime(frame): columns of equal length, or one of them short
CombineFields ==
    /\ pc = "idle"
    /\ \E rows \in SeqsUpTo(Rows, MaxLen), short \in 0..3 :
        LET ys == IF short = 1 THEN Short(Column(rows, 1)) ELSE Column(rows, 1)
            ms == IF short = 2 THEN Short(Column(rows, 2)) ELSE Column(rows, 2)
            ds == IF short = 3 THEN Short(Column(rows, 3)) ELSE Column(rows, 3)
        IN  /\ call' = [op |-> "combine_fields",
                        years |-> ys, months |-> ms, days |-> ds]
            /\ res' = to_datetime_frame(ys, ms, ds)
            /\ resB' = to_datetime_frame(ys, ms, ds)
    /\ pc' = "returned"
    /\ UNCHANGED <<clock, clockB, priorB>>

\* pd.date_range(start=..., periods=..., freq=...)
GenerateRange ==
    /\ pc = "idle"
    /\ \E s \in RangeStarts, n \in (-1)..MaxPeriods, d \in Durations :
        /\ call' = [op |-> "generate_range", start |-> s, periods |-> n, step |-> d]
        /\ res' = date_range(s, n, d)
        /\ resB' = date_range(s, n, d)
    /\ pc' = "returned"
    /\ UNCHANGED <<clock, clockB, priorB>>

\* run B makes a call that run A does not make; the call leaves nothing
\* behind but the fact that it was made
CallOnlyB ==
    /\ pc = "idle"
    /\ ~priorB
    /\ priorB' = TRUE
    /\ UNCHANGED <<clock, clockB, pc, call, res, resB>>

\* the caller takes the value
Return ==
    /\ pc = "returned"
    /\ pc' = "idle"
    /\ call' = NoCall
    /\ res' = Err("none")
    /\ resB' = Err("none")
    /\ UNCHANGED <<clock, clockB, priorB>>

Next ==
    \/ TickA
    \/ TickB
    \/ CurrentInstant
    \/ Subtract
    \/ Add
    \/ ParseFreeForm
    \/ ParseWithFormat
    \/ ParseCollection
    \/ CombineFields
    \/ GenerateRange
    \/ CallOnlyB
    \/ Return

Spec == Init /\ [][Next]_vars

\* ------------------------------------------------------------------------
\* Properties
\* ------------------------------------------------------------------------
Made(op) == pc = "returned" /\ call.op = op

Min(a, b) == IF a <= b THEN a ELSE b

\* a text of three numeric components, none a month name
ThreePartNumeric(t) == Len(t.parts) = 3 /\ t.mon = 0

\* the year a component stands for: itself when written with its century,
\* else a year ending in these two digits
IsYearOf(y, comp) == IF comp >= 100 THEN y = comp ELSE y % 100 = comp

\* C1: for a three-part numeric text whose first two components are both
\* in 1..12, parse with dayfirst=True returns day = first, month = second,
\* and with dayfirst=False month = first, day = second; the year is the
\* third component either way.
C1_DayFirstSelects ==
    (/\ Made("parse_free_form")
     /\ ThreePartNumeric(call.text)
     /\ call.text.parts[1] \in 1..12
     /\ call.text.parts[2] \in 1..12)
    => LET p == call.text.parts
       IN  /\ IsOk(res)
           /\ res.val.day = (IF call.dayfirst THEN p[1] ELSE p[2])
           /\ res.val.month = (IF call.dayfirst THEN p[2] ELSE p[1])
           /\ IsYearOf(res.val.year, p[3])

\* '6/4/2001' with dayfirst=False has come back as June 4th, 2001
C1_Witness ==
    /\ Made("parse_free_form")
    /\ call.text = Text(<<6, 4, 2001>>, 0)
    /\ ~call.dayfirst
    /\ res = Ok(Date(2001, 6, 4))

\* C2: date_range(start, periods, step) with periods >= 0 returns exactly
\* `periods` values, the first equal to start and each later one its
\* predecessor plus step; with a one-day step neighbours are one calendar
\* day apart, also across month ends, year ends and 29 February.
C2_RangeSteps ==
    (Made("generate_range") /\ call.periods >= 0)
    => /\ IsOk(res)
       /\ Len(res.val) = call.periods
       /\ (call.periods > 0 => res.val[1] = call.start)
       /\ \A i \in 1..(call.periods - 1) :
            /\ res.val[i + 1] = DateTimeAdd(res.val[i], call.step)
            /\ (call.step = TimeDelta(1, 0, 0)
                => /\ ToOrdinal(res.val[i + 1].year, res.val[i + 1].month,
                                res.val[i + 1].day)
                      = ToOrdinal(res.val[i].year, res.val[i].month,
                                  res.val[i].day) + 1
                   /\ SecondsOfDay(res.val[i + 1]) = SecondsOfDay(res.val[i]))

\* a daily range from 2000-02-28 has run over the leap day into March
C2_Witness ==
    /\ Made("generate_range")
    /\ call.start = Date(2000, 2, 28)
    /\ call.step = TimeDelta(1, 0, 0)
    /\ call.periods = 3
    /\ res = Ok(<<Date(2000, 2, 28), Date(2000, 2, 29), Date(2000, 3, 1)>>)

\* the text gives a year, a month and a day
GivesYMD(t, dayfirst) ==
    /\ Len(t.parts) \in 1..3
    /\ LET r == ResolveYMD(t, dayfirst)
       IN  r.year # None /\ r.month # None /\ r.day # None

\* the text starts with a four-digit year
YearFirst(t) == Len(t.parts) >= 1 /\ t.mon # 1 /\ t.parts[1] >= 1000

AllParseable(tokens, dayfirst, now) ==
    \A i \in 1..Len(tokens) : IsOk(parse(tokens[i], dayfirst, now))

ElementWise(tokens, dayfirst, now, r) ==
    /\ IsOk(r)
    /\ Len(r.val) = Len(tokens)
    /\ \A i \in 1..Len(tokens) : Ok(r.val[i]) = parse(tokens[i], dayfirst, now)

Has(F, dir) == \E i \in 1..Len(F) : F[i] = dir

\* F encodes every field of c that is not strptime's default
\* (1900-01-01 00:00:00); the two-digit %y drops the century and so does
\* not encode a year
Encodes(F, c) ==
    /\ Has(F, "Y") \/ (c.year = 1900 /\ ~Has(F, "y"))
    /\ Has(F, "m") \/ c.month = 1
    /\ Has(F, "d") \/ c.day = 1
    /\ Has(F, "H") \/ c.hour = 0
    /\ Has(F, "M") \/ c.minute = 0
    /\ Has(F, "S") \/ c.second = 0
    /\ c.microsecond = 0

\* C7: strptime(strftime(c, F), F) = c for every instant c and format F
\* that encodes all fields of c that are not the default; with '%m-%Y'
\* every first-of-month midnight comes back, day 1 and 00:00:00 restored.
C7_FormatRoundTrip ==
    \A c \in Instants :
        (/\ Made("parse_with_format")
         /\ call.text = strftime(c, call.format)
         /\ Encodes(call.format, c))
        => res = Ok(c)

\* '06-1995' has been read with '%m-%Y'
C7_Witness ==
    /\ Made("parse_with_format")
    /\ call.format = <<"m", "Y">>
    /\ call.text = strftime(Date(1995, 6, 1), <<"m", "Y">>)
    /\ res = Ok(Date(1995, 6, 1))

\* the text is well-formed and gives no day
OmitsDay(t, dayfirst) ==
    /\ Len(t.parts) \in 1..3
    /\ ResolveYMD(t, dayfirst).day = None

\* C8 as stated: when the text omits the day, the result's day, hour,
\* minute, second and microsecond are those of the clock at call time.
C8_Original ==
    (Made("parse_free_form") /\ OmitsDay(call.text, call.dayfirst))
    => /\ IsOk(res)
       /\ res.val.day = Now.day
       /\ res.val.hour = Now.hour
       /\ res.val.minute = Now.minute
       /\ res.val.second = Now.second
       /\ res.val.microsecond = Now.microsecond

\* C8, amended: a year, month or day the text omits is that of the current
\* date at call time, a day past the end of the resulting month being cut
\* to the month's last day; hour, minute, second and microsecond the text
\* omits are zero.
C8_DefaultFill ==
    (Made("parse_free_form") /\ Len(call.text.parts) \in 1..3 /\ IsOk(res))
    => LET r == ResolveYMD(call.text, call.dayfirst)
       IN  /\ (r.year = None => res.val.year = Now.year)
           /\ (r.month = None => res.val.month = Now.month)
           /\ (r.day = None
               => res.val.day = Min(Now.day, DaysInMonth(res.val.year, res.val.month)))
           /\ res.val.hour = 0
           /\ res.val.minute = 0
           /\ res.val.second = 0
           /\ res.val.microsecond = 0

\* '06-1995' parsed on October 31st: June 30th, midnight
C8_Witness ==
    /\ Made("parse_free_form")
    /\ call.text = Text(<<6, 1995>>, 0)
    /\ Now.day = 31
    /\ res = Ok(Date(1995, 6, 30))

ClaimedPure ==
    {"parse_free_form", "parse_with_format", "parse_collection",
     "combine_fields", "generate_range"}

ReadsClock(t, dayfirst) ==
    /\ Len(t.parts) \in 1..3
    /\ ~GivesYMD(t, dayfirst) \/ ~CenturySpecified(t)

NamesDate(p) ==
    \E y \in {p[3], 1900 + p[3], 2000 + p[3]} :
        IsYearOf(y, p[3]) /\ ValidDate(y, p[2], p[1])

====
